---- MODULE Spec2Model ----
(***************************************************************************)
(* A model of the quiz-creation state manager (useQuizCreation), of the    *)
(* quiz resource-selection side panel that drives it, and of the shared    *)
(* task poller (useTaskPolling).                                           *)
(*                                                                         *)
(* Section indexes are 0-based as in the source; the sequence of sections  *)
(* is 1-based, so section i of the source is question_sources[i + 1].      *)
(***************************************************************************)
EXTENDS Integers, Sequences, FiniteSets, TLC

(***************************************************************************)
(* Bounds of the model.                                                    *)
(***************************************************************************)
\* The most sections a quiz gets in the model (addSection itself has no limit).
MaxSections == 2
\* kolibri/constants sets this to 25; the model scales it down.
MAX_QUESTIONS_PER_QUIZ_SECTION == 2
\* The longest array of questions or of question items an operation is given.
MaxInput == 2
\* The most save requests in flight at once.
MaxInFlight == 1
\* The most initializeQuiz fetches in flight at once.
MaxPendingInit == 1

(***************************************************************************)
(* The content the quiz is built from: exercises and their assessment      *)
(* items.                                                                  *)
(***************************************************************************)
ExerciseIds == {"e1", "e2"}

\* an exercise of three questions, for the operations that need more than one
\* unused question of an exercise
LargeExerciseId == "e3"

AssessmentItemIds(e) ==
  IF e = "e1" THEN <<"a", "b">>
  ELSE IF e = LargeExerciseId THEN <<"a", "b", "c">>
  ELSE <<"a">>

Exercise(e) ==
  [id |-> e, assessmentmetadata |-> [assessment_item_ids |-> AssessmentItemIds(e)]]

\* `${exercise.id}:${aid}`: the composite key of a question
ItemOf(e, aid) == <<e, ":", aid>>

Range(s) == {s[i] : i \in DOMAIN s}

Question(e, aid) == [exercise_id |-> e, question_id |-> aid, item |-> ItemOf(e, aid)]

\* what Array.prototype.shift, pop and find give when there is nothing to give
Undefined == [exercise_id |-> "undefined", question_id |-> "undefined", item |-> <<>>]

\* values of questions that are not arrays, written within the type of the
\* arrays of questions: a truthy one (an object, a non-empty string) and a
\* falsy one (null, 0, '', false)
NotAnArray ==
  <<[exercise_id |-> "not an array", question_id |-> "truthy", item |-> <<>>]>>

FalsyNotAnArray ==
  <<[exercise_id |-> "not an array", question_id |-> "falsy", item |-> <<>>]>>

exerciseToQuestionArray(exercise) ==
  [i \in DOMAIN exercise.assessmentmetadata.assessment_item_ids |->
     Question(exercise.id, exercise.assessmentmetadata.assessment_item_ids[i])]

AllQuestions ==
  UNION {Range(exerciseToQuestionArray(Exercise(e))) : e \in ExerciseIds}

AllItems == {q.item : q \in AllQuestions}

\* the questions of the large exercise
LargeExerciseQuestions == Range(exerciseToQuestionArray(Exercise(LargeExerciseId)))

\* validateObject(q, QuizQuestion)
validQuizQuestion(q) == q \in AllQuestions \cup LargeExerciseQuestions

SeqsUpTo(S, n) == UNION {[1..k -> S] : k \in 0..n}

\* lodash uniq: the first occurrence of each element, in order
RECURSIVE uniq(_)
uniq(s) ==
  IF s = <<>> THEN <<>>
  ELSE LET init == uniq(SubSeq(s, 1, Len(s) - 1))
           last == s[Len(s)]
       IN IF last \in Range(init) THEN init ELSE Append(init, last)

NoDuplicates(s) == \A i, j \in DOMAIN s : s[i] = s[j] => i = j

\* shuffled(array): any permutation of it
Shuffles(s) ==
  {[i \in DOMAIN s |-> s[p[i]]] :
     p \in {f \in [DOMAIN s -> DOMAIN s] : \A i, j \in DOMAIN s : f[i] = f[j] => i = j}}

\* { ...object, ...updates }
Merge(object, updates) ==
  [f \in DOMAIN object \cup DOMAIN updates |->
     IF f \in DOMAIN updates THEN updates[f] ELSE object[f]]

\* an object without one of its properties (delete object.property)
Without(object, property) == [f \in DOMAIN object \ {property} |-> object[f]]

(***************************************************************************)
(* State.                                                                  *)
(***************************************************************************)
VARIABLES
  \* useQuizCreation
  _quiz,                   \* the quiz aggregate
  quizHasChanged,          \* unsaved-changes flag
  activeSectionIndex,      \* the section index of the current route
  _selectedQuestionIds,    \* items selected in the active section
  _exerciseMap,            \* exercise cache: exercise id -> exercise
  _questionItemsToReplace, \* items the next panel save replaces
  lastError,               \* what the last operation threw (NoError: nothing)
  saveRequests,            \* save requests sent and not yet answered
  pendingInits,            \* initializeQuiz calls waiting on a fetch
  unsavedChanges,          \* history: the quiz was modified after the data of
                           \* the last successful save (or the last
                           \* initializeQuiz) was captured
  \* QuizResourceSelection
  panel,                   \* the side panel: closed, or its settings and selection
  \* useTaskPolling
  taskPollers,             \* registry: queue name -> poller
  pollers,                 \* every poller created: consumers, isActive, tasks
  components               \* the components using useTaskPolling

quizVars ==
  <<_quiz, quizHasChanged, activeSectionIndex, _selectedQuestionIds, _exerciseMap,
    _questionItemsToReplace, lastError, saveRequests, pendingInits, unsavedChanges>>

panelVars == <<panel>>

pollVars == <<taskPollers, pollers, components>>

vars == <<quizVars, panelVars, pollVars>>

(***************************************************************************)
(* Quiz objects.                                                           *)
(***************************************************************************)
\* the id of a quiz the server has not stored yet
NoId == "undefined"

ServerIds == {"q1", "q2"}

Collections == {"class1"}

\* a title the Quiz spec rejects (not a string)
InvalidTitle == "<not a string>"

ValidTitles == {"", "Quiz"}

\* objectWithDefaults({}, QuizSection)
DefaultSection == [section_title |-> "", questions |-> <<>>]

\* objectWithDefaults({ collection, assignments }, Quiz)
DefaultQuiz(collection) ==
  [id |-> NoId, title |-> "", collection |-> collection, question_sources |-> <<>>]

\* validateObject(quiz, Quiz), on the properties the object has
validateQuiz(quiz) ==
  /\ "title" \in DOMAIN quiz => quiz.title \in ValidTitles
  /\ "question_sources" \in DOMAIN quiz =>
       \A i \in DOMAIN quiz.question_sources :
         \A j \in DOMAIN quiz.question_sources[i].questions :
           validQuizQuestion(quiz.question_sources[i].questions[j])

(***************************************************************************)
(* Errors.                                                                 *)
(***************************************************************************)
NoError == "none"

TypeErrors ==
  {"SectionNotFound", "QuestionsNotArray", "TooManyQuestions", "InvalidQuestion",
   "EmptyResourcePool", "BadQuestionCount", "EmptyQuestions", "ReplaceCountMismatch",
   "InvalidQuizUpdates", "UndefinedProperty"}

Errors ==
  {"SectionNotFoundForRemoval", "NoUnusedQuestions", "NotEnoughUnusedQuestions",
   "NotEnoughQuestionsInPool", "OnlyOneResourceForPracticeQuiz"}

ErrorType(e) ==
  IF e \in TypeErrors THEN "TypeError" ELSE IF e \in Errors THEN "Error" ELSE NoError

(***************************************************************************)
(* The composable's operations, as functions of its state: each takes the  *)
(* state st it is called in and gives the state it leaves, st.error saying *)
(* what it threw.                                                          *)
(***************************************************************************)
State ==
  [quiz |-> _quiz, quizHasChanged |-> quizHasChanged, exerciseMap |-> _exerciseMap,
   selected |-> _selectedQuestionIds, toReplace |-> _questionItemsToReplace,
   error |-> NoError]

Throw(st, e) == [st EXCEPT !.error = e]

Ok(st) == st.error = NoError

allSections(st) == st.quiz.question_sources

HasSection(st, sectionIndex) ==
  sectionIndex >= 0 /\ sectionIndex + 1 <= Len(allSections(st))

activeQuestions(st) ==
  IF HasSection(st, activeSectionIndex)
  THEN allSections(st)[activeSectionIndex + 1].questions
  ELSE <<>>

RECURSIVE ConcatQuestions(_)
ConcatQuestions(sections) ==
  IF sections = <<>> THEN <<>>
  ELSE Head(sections).questions \o ConcatQuestions(Tail(sections))

allQuestionsInQuiz(st) == ConcatQuestions(allSections(st))

ItemsOf(questions) == [i \in DOMAIN questions |-> questions[i].item]

\* for (const exercise of exercises) _exerciseMap[exercise.id] = exercise
cacheExercises(exerciseMap, exercises) ==
  [id \in DOMAIN exerciseMap \cup {exercises[i].id : i \in DOMAIN exercises} |->
     IF \E i \in DOMAIN exercises : exercises[i].id = id
     \* the last exercise of the array with this id is the one kept
     THEN exercises[CHOOSE i \in DOMAIN exercises :
                      /\ exercises[i].id = id
                      /\ \A j \in DOMAIN exercises : exercises[j].id = id => j <= i]
     ELSE exerciseMap[id]]

\* updateSection without its check of the length of questions
updateSection_unbounded(st, sectionIndex, updates) ==
  LET s1 == [st EXCEPT !.quizHasChanged = TRUE]
  IN IF ~HasSection(s1, sectionIndex) THEN Throw(s1, "SectionNotFound")
     ELSE IF "questions" \in DOMAIN updates
             /\ \E i \in DOMAIN updates.questions : ~validQuizQuestion(updates.questions[i])
     THEN Throw(s1, "InvalidQuestion")
     ELSE
       LET pooled == "resourcePool" \in DOMAIN updates
           pool == IF pooled THEN updates.resourcePool ELSE <<>>
           rest == IF pooled THEN Without(updates, "resourcePool") ELSE updates
           targetSection == allSections(s1)[sectionIndex + 1]
       IN [s1 EXCEPT !.exerciseMap = cacheExercises(s1.exerciseMap, pool),
                     !.quiz.question_sources[sectionIndex + 1] = Merge(targetSection, rest)]

\* src: updateSection({ sectionIndex, ...updates }); updates has some of the
\* properties questions, resourcePool and section_title
updateSection(st, sectionIndex, updates) ==
  LET s1 == [st EXCEPT !.quizHasChanged = TRUE]
      \* if (questions): the checks are made of a value that is truthy
      questions == "questions" \in DOMAIN updates /\ updates.questions # FalsyNotAnArray
  IN IF ~HasSection(s1, sectionIndex) THEN Throw(s1, "SectionNotFound")
     ELSE IF questions /\ updates.questions = NotAnArray
     THEN Throw(s1, "QuestionsNotArray")
     ELSE IF questions /\ Len(updates.questions) > MAX_QUESTIONS_PER_QUIZ_SECTION
     THEN Throw(s1, "TooManyQuestions")
     ELSE IF questions
             /\ \E i \in DOMAIN updates.questions : ~validQuizQuestion(updates.questions[i])
     THEN Throw(s1, "InvalidQuestion")
     ELSE
       LET pooled == "resourcePool" \in DOMAIN updates
           pool == IF pooled THEN updates.resourcePool ELSE <<>>
           rest == IF pooled THEN Without(updates, "resourcePool") ELSE updates
           targetSection == allSections(s1)[sectionIndex + 1]
       IN [s1 EXCEPT !.exerciseMap = cacheExercises(s1.exerciseMap, pool),
                     !.quiz.question_sources[sectionIndex + 1] = Merge(targetSection, rest)]

\* src: updateQuiz(updates)
updateQuiz(st, updates) ==
  LET s1 == [st EXCEPT !.quizHasChanged = TRUE]
  IN IF ~validateQuiz(updates) THEN Throw(s1, "InvalidQuizUpdates")
     ELSE [s1 EXCEPT !.quiz = Merge(s1.quiz, updates)]

\* src: addSection()
addSection(st) ==
  updateQuiz(st, [question_sources |-> Append(st.quiz.question_sources, DefaultSection)])

\* removeSection that leaves the quiz without a section when it removes the
\* only one
removeSection_noRefill(st, sectionIndex) ==
  IF ~HasSection(st, sectionIndex) THEN Throw(st, "SectionNotFoundForRemoval")
  ELSE updateQuiz(st, [question_sources |->
                         SubSeq(allSections(st), 1, sectionIndex)
                           \o SubSeq(allSections(st), sectionIndex + 2,
                                     Len(allSections(st)))])

\* removeSection that removes the section before the one it is given
removeSection_offByOne(st, sectionIndex) ==
  IF ~HasSection(st, sectionIndex) THEN Throw(st, "SectionNotFoundForRemoval")
  ELSE
    LET at == IF sectionIndex = 0 THEN 0 ELSE sectionIndex - 1
        updatedSections ==
          SubSeq(allSections(st), 1, at)
            \o SubSeq(allSections(st), at + 2, Len(allSections(st)))
        s1 == updateQuiz(st, [question_sources |-> updatedSections])
    IN IF Ok(s1) /\ Len(allSections(s1)) = 0 THEN addSection(s1) ELSE s1

\* src: removeSection(sectionIndex)
removeSection(st, sectionIndex) ==
  IF ~HasSection(st, sectionIndex) THEN Throw(st, "SectionNotFoundForRemoval")
  ELSE
    LET updatedSections ==
          SubSeq(allSections(st), 1, sectionIndex)
            \o SubSeq(allSections(st), sectionIndex + 2, Len(allSections(st)))
        s1 == updateQuiz(st, [question_sources |-> updatedSections])
    IN IF Ok(s1) /\ Len(allSections(s1)) = 0 THEN addSection(s1) ELSE s1

\* the new array _replaceQuestions maps baseQuestions to: each question whose
\* item is to be replaced becomes replacements.shift()
RECURSIVE ReplaceEach(_, _, _)
ReplaceEach(baseQuestions, questionItemsToReplace, replacements) ==
  IF baseQuestions = <<>> THEN <<>>
  ELSE IF Head(baseQuestions).item \in Range(questionItemsToReplace)
  THEN <<IF replacements = <<>> THEN Undefined ELSE Head(replacements)>>
         \o ReplaceEach(Tail(baseQuestions), questionItemsToReplace,
                        IF replacements = <<>> THEN <<>> ELSE Tail(replacements))
  ELSE <<Head(baseQuestions)>>
         \o ReplaceEach(Tail(baseQuestions), questionItemsToReplace, replacements)

\* _replaceQuestions without its check of the two lengths
_replaceQuestions_unchecked(baseQuestions, questionItemsToReplace, replacements) ==
  [error |-> NoError,
   value |-> ReplaceEach(baseQuestions, questionItemsToReplace, replacements)]

\* src: _replaceQuestions; gives what it throws and what it returns
_replaceQuestions(baseQuestions, questionItemsToReplace, replacements) ==
  IF Len(questionItemsToReplace) # Len(replacements)
  THEN [error |-> "ReplaceCountMismatch", value |-> <<>>]
  ELSE [error |-> NoError,
        value |-> ReplaceEach(baseQuestions, questionItemsToReplace, replacements)]

\* src: addQuestionsToSection({ sectionIndex, questions, resources,
\* questionItemsToReplace }); an absent array is the empty one
addQuestionsToSection(st, sectionIndex, questions, resources, questionItemsToReplace) ==
  IF ~HasSection(st, sectionIndex) THEN Throw(st, "SectionNotFound")
  ELSE IF Len(questions) = 0 THEN Throw(st, "EmptyQuestions")
  ELSE
    LET targetSection == allSections(st)[sectionIndex + 1]
        newQuestions ==
          SelectSeq(questions,
                    LAMBDA q : q.item \notin Range(ItemsOf(targetSection.questions)))
        replaced ==
          _replaceQuestions(targetSection.questions, questionItemsToReplace, newQuestions)
    IN IF Len(questionItemsToReplace) > 0
       THEN IF replaced.error # NoError THEN Throw(st, replaced.error)
            ELSE updateSection(st, sectionIndex,
                               [questions |-> replaced.value, resourcePool |-> resources])
       ELSE updateSection(st, sectionIndex,
                          [questions |-> targetSection.questions \o newQuestions,
                           resourcePool |-> resources])

\* selectQuestions(questionCount, resourcePool, seed, excluded): every array
\* the seeded sampling can give, questionCount distinct questions of the
\* pool's exercises whose items are not excluded
selectQuestions(questionCount, resourcePool, excluded) ==
  LET candidates ==
        {q \in UNION {Range(exerciseToQuestionArray(resourcePool[i])) :
                        i \in DOMAIN resourcePool} : q.item \notin Range(excluded)}
  IN {s \in [1..questionCount -> candidates] : NoDuplicates(s)}

\* src: addQuestionsToSectionFromResources; the set of states it can leave
addQuestionsToSectionFromResources(st, sectionIndex, resourcePool, questionCount) ==
  IF ~HasSection(st, sectionIndex) THEN {Throw(st, "SectionNotFound")}
  ELSE IF Len(resourcePool) = 0 THEN {Throw(st, "EmptyResourcePool")}
  ELSE IF questionCount < 1 THEN {Throw(st, "BadQuestionCount")}
  ELSE
    LET targetSection == allSections(st)[sectionIndex + 1]
        selections ==
          selectQuestions(questionCount, resourcePool, ItemsOf(allQuestionsInQuiz(st)))
    IN IF selections = {} THEN {Throw(st, "NotEnoughQuestionsInPool")}
       ELSE {updateSection(st, sectionIndex,
                           [questions |-> targetSection.questions \o newQuestions,
                            resourcePool |-> resourcePool]) :
               newQuestions \in selections}

\* src: addQuestionsToSelection(ids)
addQuestionsToSelection(st, ids) == [st EXCEPT !.selected = uniq(st.selected \o ids)]

\* src: removeQuestionsFromSelection(ids)
removeQuestionsFromSelection(st, ids) ==
  [st EXCEPT !.selected = SelectSeq(st.selected, LAMBDA id : id \notin Range(ids))]

\* src: clearSelectedQuestions()
clearSelectedQuestions(st) == [st EXCEPT !.selected = <<>>]

\* src: setQuestionItemsToReplace(item)
setQuestionItemsToReplace(st, items) == [st EXCEPT !.toReplace = items]

\* src: deleteActiveSelectedQuestions()
deleteActiveSelectedQuestions(st) ==
  IF ~HasSection(st, activeSectionIndex)
  \* const { questions } = get(activeSection), of an undefined active section
  THEN Throw(st, "UndefinedProperty")
  ELSE
    LET questions ==
          SelectSeq(activeQuestions(st), LAMBDA q : q.item \notin Range(st.selected))
        s1 == updateSection(st, activeSectionIndex, [questions |-> questions])
    IN IF Ok(s1) THEN [s1 EXCEPT !.selected = <<>>] ELSE s1

\* the exercise ids of the active section's questions (the keys of
\* activeResourceMap)
activeExerciseIds(st) == {q.exercise_id : q \in Range(activeQuestions(st))}

\* the unused questions taken to be those the active section does not hold
unusedQuestionItems_activeOnly(st, exerciseId) ==
  LET exercise == st.exerciseMap[exerciseId]
      items == [i \in DOMAIN exercise.assessmentmetadata.assessment_item_ids |->
                  ItemOf(exercise.id, exercise.assessmentmetadata.assessment_item_ids[i])]
  IN SelectSeq(items, LAMBDA qid : qid \notin Range(ItemsOf(activeQuestions(st))))

\* src: activeExercisesUnusedQuestionsMap, for one exercise of the cache
unusedQuestionItems(st, exerciseId) ==
  LET exercise == st.exerciseMap[exerciseId]
      items == [i \in DOMAIN exercise.assessmentmetadata.assessment_item_ids |->
                  ItemOf(exercise.id, exercise.assessmentmetadata.assessment_item_ids[i])]
  IN SelectSeq(items, LAMBDA qid : qid \notin Range(ItemsOf(allQuestionsInQuiz(st))))

\* find(q => q.item === item) in an array of questions
FindByItem(questions, item) ==
  IF \E i \in DOMAIN questions : questions[i].item = item
  THEN questions[CHOOSE i \in DOMAIN questions :
                   /\ questions[i].item = item
                   /\ \A j \in DOMAIN questions : questions[j].item = item => i <= j]
  ELSE Undefined

\* the newQuestions of autoReplaceQuestions: each question to replace takes
\* unusedQuestions.pop() of its exercise; Undefined where there is none left
RECURSIVE PopEach(_, _)
PopEach(questionsToReplace, shuffledMap) ==
  IF questionsToReplace = <<>> THEN <<>>
  ELSE LET exerciseId == Head(questionsToReplace).exercise_id
           unused == shuffledMap[exerciseId]
       IN IF unused = <<>> THEN <<Undefined>>
          ELSE <<unused[Len(unused)]>>
                 \o PopEach(Tail(questionsToReplace),
                            [shuffledMap EXCEPT ![exerciseId] =
                               SubSeq(unused, 1, Len(unused) - 1)])

\* src: autoReplaceQuestions(questionItems); the set of states it can leave,
\* one for each outcome of the shuffles
autoReplaceQuestions(st, questionItems) ==
  IF Len(questionItems) = 0 THEN {st}
  ELSE
    LET found == [i \in DOMAIN questionItems |->
                    FindByItem(activeQuestions(st), questionItems[i])]
        questionsToReplace == SelectSeq(found, LAMBDA q : q # Undefined)
        exercises == uniq([i \in DOMAIN questionsToReplace |->
                             questionsToReplace[i].exercise_id])
        exerciseSet == Range(exercises)
    IN IF exerciseSet # {} /\ ~(activeExerciseIds(st) \subseteq DOMAIN st.exerciseMap)
       \* exercise.assessmentmetadata of an exercise the cache does not hold
       THEN {Throw(st, "UndefinedProperty")}
       ELSE IF \E e \in exerciseSet : Len(unusedQuestionItems(st, e)) = 0
       THEN {Throw(st, "NoUnusedQuestions")}
       ELSE
         LET shuffles(e) ==
               {[i \in DOMAIN s |->
                   FindByItem(exerciseToQuestionArray(st.exerciseMap[e]), s[i])] :
                  s \in Shuffles(unusedQuestionItems(st, e))}
             shuffledMaps ==
               {m \in [exerciseSet -> UNION {shuffles(e) : e \in exerciseSet}] :
                  \A e \in exerciseSet : m[e] \in shuffles(e)}
             outcome(m) ==
               LET newQuestions == PopEach(questionsToReplace, m)
                   replaced == _replaceQuestions(activeQuestions(st),
                                                 ItemsOf(questionsToReplace), newQuestions)
               IN IF Undefined \in Range(newQuestions)
                  THEN Throw(st, "NotEnoughUnusedQuestions")
                  ELSE IF replaced.error # NoError THEN Throw(st, replaced.error)
                  ELSE updateSection(st, activeSectionIndex, [questions |-> replaced.value])
         IN {outcome(m) : m \in shuffledMaps}

(***************************************************************************)
(* Actions of useQuizCreation: one for each call of an operation, and one  *)
(* for each continuation of an asynchronous one.                           *)
(***************************************************************************)
\* a promise the composable returned was rejected
Rejections == {"QuizNotValid", "SaveRejected", "FetchRejected"}

\* the quiz apart from its id, which only the server sets
Content(quiz) == Without(quiz, "id")

Modified(st) == Content(st.quiz) # Content(_quiz)

\* the state st an operation leaves becomes the state of the composable
Commit(st) ==
  /\ _quiz' = st.quiz
  /\ quizHasChanged' = st.quizHasChanged
  /\ _exerciseMap' = st.exerciseMap
  /\ _selectedQuestionIds' = st.selected
  /\ _questionItemsToReplace' = st.toReplace
  /\ lastError' = st.error
  /\ unsavedChanges' = (unsavedChanges \/ Modified(st))
  /\ saveRequests' =
       [i \in DOMAIN saveRequests |->
          [saveRequests[i] EXCEPT !.modifiedSince = @ \/ Modified(st)]]

WithinModel(st) == Len(allSections(st)) <= MaxSections

UpdateSection(sectionIndex, updates) ==
  /\ Commit(updateSection(State, sectionIndex, updates))
  /\ UNCHANGED <<activeSectionIndex, pendingInits, panelVars, pollVars>>

UpdateQuiz(updates) ==
  /\ Commit(updateQuiz(State, updates))
  /\ UNCHANGED <<activeSectionIndex, pendingInits, panelVars, pollVars>>

AddSection ==
  /\ WithinModel(addSection(State))
  /\ Commit(addSection(State))
  /\ UNCHANGED <<activeSectionIndex, pendingInits, panelVars, pollVars>>

RemoveSection(sectionIndex) ==
  /\ Commit(removeSection(State, sectionIndex))
  /\ UNCHANGED <<activeSectionIndex, pendingInits, panelVars, pollVars>>

AddQuestionsToSection(sectionIndex, questions, resources, questionItemsToReplace) ==
  /\ Commit(addQuestionsToSection(State, sectionIndex, questions, resources,
                                  questionItemsToReplace))
  /\ UNCHANGED <<activeSectionIndex, pendingInits, panelVars, pollVars>>

AddQuestionsToSectionFromResources(sectionIndex, resourcePool, questionCount) ==
  /\ \E st \in addQuestionsToSectionFromResources(State, sectionIndex, resourcePool,
                                                   questionCount) : Commit(st)
  /\ UNCHANGED <<activeSectionIndex, pendingInits, panelVars, pollVars>>

AutoReplaceQuestions(questionItems) ==
  /\ \E st \in autoReplaceQuestions(State, questionItems) : Commit(st)
  /\ UNCHANGED <<activeSectionIndex, pendingInits, panelVars, pollVars>>

DeleteActiveSelectedQuestions ==
  /\ Commit(deleteActiveSelectedQuestions(State))
  /\ UNCHANGED <<activeSectionIndex, pendingInits, panelVars, pollVars>>

AddQuestionsToSelection(ids) ==
  /\ Commit(addQuestionsToSelection(State, ids))
  /\ UNCHANGED <<activeSectionIndex, pendingInits, panelVars, pollVars>>

RemoveQuestionsFromSelection(ids) ==
  /\ Commit(removeQuestionsFromSelection(State, ids))
  /\ UNCHANGED <<activeSectionIndex, pendingInits, panelVars, pollVars>>

\* the route changes to another section and no watcher clears the selection
SetActiveSection_keepsSelection(sectionIndex) ==
  /\ sectionIndex # activeSectionIndex
  /\ activeSectionIndex' = sectionIndex
  /\ Commit(State)
  /\ UNCHANGED <<pendingInits, panelVars, pollVars>>

\* the route changes to another section; src: watch(activeSectionIndex)
\* clears the selection
SetActiveSection(sectionIndex) ==
  /\ sectionIndex # activeSectionIndex
  /\ activeSectionIndex' = sectionIndex
  /\ Commit(clearSelectedQuestions(State))
  /\ UNCHANGED <<pendingInits, panelVars, pollVars>>

(***************************************************************************)
(* initializeQuiz.  For a new quiz the async function runs to its end      *)
(* within the call.  For an existing quiz it stops at each of its two      *)
(* awaits, and what follows an await runs when the fetch resolves.         *)
(***************************************************************************)
\* initializeQuiz that starts the cache afresh with the exercises it fetched
initialized_freshCache(st, quiz, exercises) ==
  LET s1 == [st EXCEPT !.exerciseMap = cacheExercises(<<>>, exercises),
                       !.quiz = quiz]
      s2 == IF Len(allSections(s1)) = 0 THEN addSection(s1) ELSE s1
  IN IF Ok(s2) THEN [s2 EXCEPT !.quizHasChanged = FALSE] ELSE s2

\* what initializeQuiz does once it has the quiz object to start from
initialized(st, quiz, exercises) ==
  LET s1 == [st EXCEPT !.exerciseMap = cacheExercises(st.exerciseMap, exercises),
                       !.quiz = quiz]
      s2 == IF Len(allSections(s1)) = 0 THEN addSection(s1) ELSE s1
  IN IF Ok(s2) THEN [s2 EXCEPT !.quizHasChanged = FALSE] ELSE s2

\* an initializeQuiz starts the quiz afresh: nothing of the quiz it leaves was
\* modified after it
CommitInitialized(st) ==
  /\ _quiz' = st.quiz
  /\ quizHasChanged' = st.quizHasChanged
  /\ _exerciseMap' = st.exerciseMap
  /\ _selectedQuestionIds' = st.selected
  /\ _questionItemsToReplace' = st.toReplace
  /\ lastError' = st.error
  /\ unsavedChanges' = FALSE
  /\ saveRequests' =
       [i \in DOMAIN saveRequests |-> [saveRequests[i] EXCEPT !.modifiedSince = FALSE]]

\* what the server can hold for a quiz id: the exam with its content
ExamsOnServer(quizId) ==
  {[exam |-> [id |-> quizId, title |-> "Quiz", collection |-> "class1",
              question_sources |->
                <<[section_title |-> "", questions |-> <<Question("e2", "a")>>]>>],
    exercises |-> <<Exercise("e2")>>],
   [exam |-> [id |-> quizId, title |-> InvalidTitle, collection |-> "class1",
              question_sources |-> <<>>],
    exercises |-> <<>>]}

\* initializeQuiz that awaits a fetch whatever the quizId
InitializeQuiz_alwaysFetches(collection, quizId) ==
  /\ Len(pendingInits) < MaxPendingInit
  /\ pendingInits' = Append(pendingInits, [quizId |-> quizId, awaiting |-> "fetchModel"])
  /\ UNCHANGED <<_quiz, quizHasChanged, activeSectionIndex, _selectedQuestionIds,
                 _exerciseMap, _questionItemsToReplace, lastError, saveRequests,
                 unsavedChanges, panelVars, pollVars>>

\* src: initializeQuiz(collection, quizId), to its end for a new quiz and to
\* await ExamResource.fetchModel for an existing one
InitializeQuiz(collection, quizId) ==
  IF quizId = "new"
  THEN /\ CommitInitialized(initialized(State, DefaultQuiz(collection), <<>>))
       /\ UNCHANGED <<activeSectionIndex, pendingInits, panelVars, pollVars>>
  ELSE /\ Len(pendingInits) < MaxPendingInit
       /\ pendingInits' =
            Append(pendingInits, [quizId |-> quizId, awaiting |-> "fetchModel"])
       /\ UNCHANGED <<_quiz, quizHasChanged, activeSectionIndex, _selectedQuestionIds,
                      _exerciseMap, _questionItemsToReplace, lastError, saveRequests,
                      unsavedChanges, panelVars, pollVars>>

RemoveAt(s, i) == SubSeq(s, 1, i - 1) \o SubSeq(s, i + 1, Len(s))

\* fetchModel resolves: on to await fetchExamWithContent(exam)
FetchModelResolves(i) ==
  /\ i \in DOMAIN pendingInits
  /\ pendingInits[i].awaiting = "fetchModel"
  /\ pendingInits' = [pendingInits EXCEPT ![i].awaiting = "fetchExamWithContent"]
  /\ UNCHANGED <<_quiz, quizHasChanged, activeSectionIndex, _selectedQuestionIds,
                 _exerciseMap, _questionItemsToReplace, lastError, saveRequests,
                 unsavedChanges, panelVars, pollVars>>

\* either fetch rejects: initializeQuiz rejects, having changed nothing
FetchRejects(i) ==
  /\ i \in DOMAIN pendingInits
  /\ pendingInits' = RemoveAt(pendingInits, i)
  /\ lastError' = "FetchRejected"
  /\ UNCHANGED <<_quiz, quizHasChanged, activeSectionIndex, _selectedQuestionIds,
                 _exerciseMap, _questionItemsToReplace, saveRequests, unsavedChanges,
                 panelVars, pollVars>>

\* fetchExamWithContent resolves: the rest of initializeQuiz
InitializeQuizFinish(i, fetched) ==
  /\ i \in DOMAIN pendingInits
  /\ pendingInits[i].awaiting = "fetchExamWithContent"
  /\ fetched \in ExamsOnServer(pendingInits[i].quizId)
  /\ pendingInits' = RemoveAt(pendingInits, i)
  /\ CommitInitialized(initialized(State, fetched.exam, fetched.exercises))
  /\ UNCHANGED <<activeSectionIndex, panelVars, pollVars>>

(***************************************************************************)
(* saveQuiz.  The call validates the quiz and sends one request; what      *)
(* follows .then runs when the request resolves.                           *)
(***************************************************************************)
\* src: saveQuiz(), to the return of the promise
SaveQuiz ==
  IF ~validateQuiz(_quiz)
  THEN /\ lastError' = "QuizNotValid"
       /\ UNCHANGED <<_quiz, quizHasChanged, activeSectionIndex, _selectedQuestionIds,
                      _exerciseMap, _questionItemsToReplace, saveRequests, pendingInits,
                      unsavedChanges, panelVars, pollVars>>
  ELSE /\ Len(saveRequests) < MaxInFlight
       /\ saveRequests' = Append(saveRequests, [id |-> _quiz.id, modifiedSince |-> FALSE])
       /\ lastError' = NoError
       /\ UNCHANGED <<_quiz, quizHasChanged, activeSectionIndex, _selectedQuestionIds,
                      _exerciseMap, _questionItemsToReplace, pendingInits, unsavedChanges,
                      panelVars, pollVars>>

\* the ids the server can answer a save request with
SavedIds(request) == IF request.id = NoId THEN ServerIds ELSE {request.id}

\* src: the .then callback of saveQuiz, given the id captured at the call
saved(st, id, exam) ==
  LET s1 == IF id # exam.id THEN updateQuiz(st, [id |-> exam.id]) ELSE st
  IN IF Ok(s1) THEN [s1 EXCEPT !.quizHasChanged = FALSE] ELSE s1

\* ExamResource.saveModel resolves with the saved exam
SaveResolves(i, examId) ==
  /\ i \in DOMAIN saveRequests
  /\ examId \in SavedIds(saveRequests[i])
  /\ LET st == saved(State, saveRequests[i].id, [id |-> examId])
     IN /\ _quiz' = st.quiz
        /\ quizHasChanged' = st.quizHasChanged
        /\ lastError' = st.error
  /\ unsavedChanges' = saveRequests[i].modifiedSince
  /\ saveRequests' = RemoveAt(saveRequests, i)
  /\ UNCHANGED <<activeSectionIndex, _selectedQuestionIds, _exerciseMap,
                 _questionItemsToReplace, pendingInits, panelVars, pollVars>>

\* a rejection after which the request is sent again
SaveRejects_retries(i) ==
  /\ i \in DOMAIN saveRequests
  /\ saveRequests' = Append(RemoveAt(saveRequests, i), saveRequests[i])
  /\ lastError' = "SaveRejected"
  /\ UNCHANGED <<_quiz, quizHasChanged, activeSectionIndex, _selectedQuestionIds,
                 _exerciseMap, _questionItemsToReplace, pendingInits, unsavedChanges,
                 panelVars, pollVars>>

\* a rejection that lowers quizHasChanged as a resolved request does
SaveRejects_clearsFlag(i) ==
  /\ i \in DOMAIN saveRequests
  /\ saveRequests' = RemoveAt(saveRequests, i)
  /\ lastError' = "SaveRejected"
  /\ quizHasChanged' = FALSE
  /\ UNCHANGED <<_quiz, activeSectionIndex, _selectedQuestionIds,
                 _exerciseMap, _questionItemsToReplace, pendingInits, unsavedChanges,
                 panelVars, pollVars>>

\* ExamResource.saveModel rejects: the promise saveQuiz returned rejects
SaveRejects(i) ==
  /\ i \in DOMAIN saveRequests
  /\ saveRequests' = RemoveAt(saveRequests, i)
  /\ lastError' = "SaveRejected"
  /\ UNCHANGED <<_quiz, quizHasChanged, activeSectionIndex, _selectedQuestionIds,
                 _exerciseMap, _questionItemsToReplace, pendingInits, unsavedChanges,
                 panelVars, pollVars>>

(***************************************************************************)
(* The quiz resource-selection side panel (QuizResourceSelection).         *)
(* settings.isChoosingManually is null until it is first set; null and     *)
(* false are both falsy, and differ under !==.                             *)
(***************************************************************************)
Null == "null"

True == "true"

False == "false"

\* getDefaultQuestionCount: Math.min(10, maxQuestions)
DefaultQuestionCountCap == 10

getDefaultQuestionCount(maxQuestions) ==
  IF maxQuestions < DefaultQuestionCountCap THEN maxQuestions ELSE DefaultQuestionCountCap

ClosedPanel ==
  [open |-> FALSE,
   settings |-> [maxQuestions |-> 0, questionCount |-> 0, isChoosingManually |-> Null,
                 selectPracticeQuiz |-> FALSE, isInReplaceMode |-> FALSE,
                 questionItemsToReplace |-> <<>>],
   workingResourcePool |-> <<>>,
   workingQuestions |-> <<>>]

\* src: resetSelection
resetSelection(p) == [p EXCEPT !.workingResourcePool = <<>>, !.workingQuestions = <<>>]

\* src: watch(settings, (newSettings, oldSettings) => ...), run with the panel
\* p that already holds newSettings; the notice it shows is not modelled
settingsWatcher(p, oldSettings) ==
  IF p.settings.isChoosingManually # oldSettings.isChoosingManually
  THEN LET counted == [p EXCEPT !.settings.questionCount =
                         IF p.settings.isChoosingManually = True
                         THEN p.settings.maxQuestions
                         ELSE getDefaultQuestionCount(p.settings.maxQuestions)]
       IN resetSelection(counted)
  ELSE p

\* src: watch(activeQuestions, ..., { immediate: true })
activeQuestionsWatcher(p, st, firstRun) ==
  LET maxQuestions == MAX_QUESTIONS_PER_QUIZ_SECTION - Len(activeQuestions(st))
  IN [p EXCEPT !.settings.maxQuestions = maxQuestions,
               !.settings.questionCount =
                 IF firstRun THEN getDefaultQuestionCount(maxQuestions) ELSE @]

\* src: setup(), with the watchers it triggers before the panel is shown
setup(st, selectPracticeQuiz) ==
  LET created == [ClosedPanel EXCEPT
                    !.open = TRUE,
                    !.settings.selectPracticeQuiz = selectPracticeQuiz,
                    !.settings.isInReplaceMode = (Len(st.toReplace) > 0),
                    !.settings.questionItemsToReplace = st.toReplace]
      watched == activeQuestionsWatcher(created, st, TRUE)
  IN IF watched.settings.isInReplaceMode
     THEN settingsWatcher(
            [watched EXCEPT !.settings.isChoosingManually = True,
                            !.settings.maxQuestions =
                              Len(watched.settings.questionItemsToReplace)],
            watched.settings)
     ELSE watched

\* src: addToWorkingResourcePool(resources); every resource of the model is
\* an exercise
addToWorkingResourcePool(p, resources) ==
  [p EXCEPT !.workingResourcePool = uniq(p.workingResourcePool \o resources)]

\* src: removeFromWorkingResourcePool(resources)
removeFromWorkingResourcePool(p, resources) ==
  [p EXCEPT !.workingResourcePool =
     SelectSeq(p.workingResourcePool,
               LAMBDA obj : ~\E i \in DOMAIN resources : resources[i].id = obj.id)]

\* src: setWorkingResourcePool(resources)
setWorkingResourcePool(p, resources) == [p EXCEPT !.workingResourcePool = resources]

\* src: addToWorkingQuestions(questions, resource)
addToWorkingQuestions(p, questions, resource) ==
  LET p1 == [p EXCEPT !.workingQuestions = uniq(p.workingQuestions \o questions)]
  IN IF \E i \in DOMAIN p1.workingResourcePool : p1.workingResourcePool[i].id = resource.id
     THEN p1
     ELSE addToWorkingResourcePool(p1, <<resource>>)

\* src: removeFromWorkingQuestions(questions)
removeFromWorkingQuestions(p, questions) ==
  LET p1 == [p EXCEPT !.workingQuestions =
               SelectSeq(p.workingQuestions,
                         LAMBDA obj : ~\E i \in DOMAIN questions :
                                         questions[i].item = obj.item)]
      resourcesToRemove ==
        SelectSeq(p1.workingResourcePool,
                  LAMBDA r : ~\E i \in DOMAIN p1.workingQuestions :
                                 p1.workingQuestions[i].exercise_id = r.id)
  IN removeFromWorkingResourcePool(p1, resourcesToRemove)

\* src: unusedQuestionsCount(content)
unusedQuestionsCount(p, st, content) ==
  LET questionItems ==
        [i \in DOMAIN content.assessmentmetadata.assessment_item_ids |->
           ItemOf(content.id, content.assessmentmetadata.assessment_item_ids[i])]
  IN Len(SelectSeq(questionItems,
                   LAMBDA item : /\ item \notin Range(ItemsOf(allQuestionsInQuiz(st)))
                                 /\ item \notin Range(ItemsOf(p.workingQuestions))))

workingPoolHasChanged(p) == Len(p.workingResourcePool) > 0

RECURSIVE SumSeq(_)
SumSeq(s) == IF s = <<>> THEN 0 ELSE Head(s) + SumSeq(Tail(s))

\* src: workingPoolQuestionsCount
workingPoolQuestionsCount(p, st) ==
  IF p.settings.isChoosingManually = True
  THEN Len(p.workingQuestions)
  ELSE SumSeq([i \in DOMAIN p.workingResourcePool |->
                 unusedQuestionsCount(p, st, p.workingResourcePool[i])])

\* src: tooManyQuestions
tooManyQuestions(p) ==
  IF p.settings.isChoosingManually = True
  THEN Len(p.workingQuestions) > p.settings.questionCount
  ELSE Len(p.workingResourcePool) > p.settings.questionCount

\* disableSave that asks for enough questions only when they are not chosen
\* manually
disableSave_notForReplace(p, st) ==
  IF p.settings.selectPracticeQuiz
  THEN ~workingPoolHasChanged(p)
  ELSE \/ ~workingPoolHasChanged(p)
       \/ p.settings.questionCount < 1
       \/ tooManyQuestions(p)
       \/ p.settings.questionCount > p.settings.maxQuestions
       \/ /\ p.settings.isChoosingManually # True
          /\ workingPoolQuestionsCount(p, st) < p.settings.questionCount

\* src: disableSave
disableSave(p, st) ==
  IF p.settings.selectPracticeQuiz
  THEN ~workingPoolHasChanged(p)
  ELSE \/ ~workingPoolHasChanged(p)
       \/ p.settings.questionCount < 1
       \/ tooManyQuestions(p)
       \/ p.settings.questionCount > p.settings.maxQuestions
       \/ /\ p.settings.isChoosingManually # True \/ p.settings.isInReplaceMode
          /\ workingPoolQuestionsCount(p, st) < p.settings.questionCount

\* the while loop of saveSelectedResource for a practice quiz: the questions
\* left go, a chunk at a time, to sectionIndex, sectionIndex + 1, ...
RECURSIVE practiceQuizChunks(_, _, _, _)
practiceQuizChunks(st, remainder, sectionIndex, workingResourcePool) ==
  IF remainder = <<>> THEN st
  ELSE
    LET s1 == IF sectionIndex # activeSectionIndex THEN addSection(st) ELSE st
        n == IF Len(remainder) < MAX_QUESTIONS_PER_QUIZ_SECTION
             THEN Len(remainder) ELSE MAX_QUESTIONS_PER_QUIZ_SECTION
        s2 == updateSection(s1, sectionIndex,
                            [questions |-> SubSeq(remainder, 1, n),
                             resourcePool |-> workingResourcePool])
    IN IF ~Ok(s1) THEN s1
       ELSE IF ~Ok(s2) THEN s2
       ELSE practiceQuizChunks(s2, SubSeq(remainder, n + 1, Len(remainder)),
                               sectionIndex + 1, workingResourcePool)

\* src: saveSelectedResource(), up to the calls that close the panel; the set
\* of states of the composable it can leave
saveSelectedResource(p, st) ==
  IF p.settings.selectPracticeQuiz
  THEN IF Len(p.workingResourcePool) # 1
       THEN {Throw(st, "OnlyOneResourceForPracticeQuiz")}
       ELSE {practiceQuizChunks(st, exerciseToQuestionArray(p.workingResourcePool[1]),
                                activeSectionIndex, p.workingResourcePool)}
  ELSE IF p.settings.isChoosingManually = True
  THEN {addQuestionsToSection(st, activeSectionIndex, p.workingQuestions,
                              p.workingResourcePool, p.settings.questionItemsToReplace)}
  ELSE addQuestionsToSectionFromResources(st, activeSectionIndex, p.workingResourcePool,
                                          p.settings.questionCount)

\* src: handleClosePanel(): the working pool and the items to replace are
\* emptied and the route leaves the panel
handleClosePanel(st) == setQuestionItemsToReplace(st, <<>>)

(***************************************************************************)
(* Actions of the panel.                                                   *)
(***************************************************************************)
\* the quiz page opens the panel to replace the selected questions: it sets
\* the items to replace, the route enters the panel and setup() runs
ReplaceSelectedQuestions ==
  /\ ~panel.open
  /\ _selectedQuestionIds # <<>>
  /\ LET st == setQuestionItemsToReplace(State, _selectedQuestionIds)
     IN /\ Commit(st)
        /\ panel' = setup(st, FALSE)
  /\ UNCHANGED <<activeSectionIndex, pendingInits, pollVars>>

\* the quiz page opens the panel to add questions or to select a practice
\* quiz: the route enters the panel and setup() runs
OpenPanel(selectPracticeQuiz) ==
  /\ ~panel.open
  /\ panel' = setup(State, selectPracticeQuiz)
  /\ UNCHANGED <<quizVars, pollVars>>

\* the settings page emits update:settings; the settings watcher follows.
\* The page is offered when questions are added, not when they are replaced
UpdateSettings(questionCount, isChoosingManually) ==
  /\ panel.open
  /\ ~panel.settings.isInReplaceMode
  /\ ~panel.settings.selectPracticeQuiz
  /\ panel' = settingsWatcher(
                 [panel EXCEPT !.settings.questionCount = questionCount,
                               !.settings.isChoosingManually = isChoosingManually],
                 panel.settings)
  /\ UNCHANGED <<quizVars, pollVars>>

AddToWorkingQuestions(questions, resource) ==
  /\ panel.open
  /\ panel' = addToWorkingQuestions(panel, questions, resource)
  /\ UNCHANGED <<quizVars, pollVars>>

RemoveFromWorkingQuestions(questions) ==
  /\ panel.open
  /\ panel' = removeFromWorkingQuestions(panel, questions)
  /\ UNCHANGED <<quizVars, pollVars>>

\* resources are selectable while questions are not chosen manually
AddToWorkingResourcePool(resources) ==
  /\ panel.open
  /\ panel.settings.isChoosingManually # True
  /\ panel' = addToWorkingResourcePool(panel, resources)
  /\ UNCHANGED <<quizVars, pollVars>>

RemoveFromWorkingResourcePool(resources) ==
  /\ panel.open
  /\ panel' = removeFromWorkingResourcePool(panel, resources)
  /\ UNCHANGED <<quizVars, pollVars>>

\* the save button, which is there to click while disableSave is false, on
\* quizzes that have no more than maxSections sections when it is done
SaveSelectedResourceWithin(maxSections) ==
  /\ panel.open
  /\ ~disableSave(panel, State)
  /\ \E result \in saveSelectedResource(panel, State) :
       /\ Len(allSections(result)) <= maxSections
       /\ IF Ok(result)
          THEN LET cleared == IF panel.settings.isInReplaceMode
                              THEN clearSelectedQuestions(result) ELSE result
               IN /\ Commit(handleClosePanel(cleared))
                  /\ panel' = ClosedPanel
          \* the error leaves the handler: the panel stays as it is, and the
          \* activeQuestions watcher sees what was changed before the throw
          ELSE /\ Commit(result)
               /\ panel' = IF activeQuestions(result) # activeQuestions(State)
                            THEN activeQuestionsWatcher(panel, result, FALSE)
                            ELSE panel
  /\ UNCHANGED <<activeSectionIndex, pendingInits, pollVars>>

SaveSelectedResource == SaveSelectedResourceWithin(MaxSections)

\* the close button: handleClosePanel()
ClosePanel ==
  /\ panel.open
  /\ Commit(handleClosePanel(State))
  /\ panel' = ClosedPanel
  /\ UNCHANGED <<activeSectionIndex, pendingInits, pollVars>>

(***************************************************************************)
(* useTaskPolling: one poller for each queue name, shared through the      *)
(* module-level registry taskPollers.  A poller is named by its place in   *)
(* pollers; 0 names none.                                                  *)
(***************************************************************************)
\* the component instances that call useTaskPolling
NumComponents == 3

Components == 1..NumComponents

QueueNames == {"facility_task", "content_import"}

\* what TaskResource.list can answer
TaskLists == {<<>>, <<"task">>}

NoPoller == 0

\* src: useTaskPolling(queueName), to its return: the setup of component c
Setup(c, queueName) ==
  /\ components[c].phase = "created"
  /\ LET missing == taskPollers[queueName] = NoPoller
         \* useTimeoutPoll(..., { immediate: true }) starts the poll at once
         created == Append(pollers, [queueName |-> queueName, consumers |-> 0,
                                     tasks |-> <<>>, isActive |-> TRUE])
         poller == IF missing THEN Len(created) ELSE taskPollers[queueName]
     IN /\ pollers' = IF missing THEN created ELSE pollers
        /\ taskPollers' = [taskPollers EXCEPT ![queueName] = poller]
        /\ components' = [components EXCEPT ![c] = [phase |-> "setup",
                                                    queueName |-> queueName,
                                                    poller |-> poller]]
  /\ UNCHANGED <<quizVars, panelVars>>

\* src: the onMounted hook of component c
Mounted(c) ==
  /\ components[c].phase = "setup"
  /\ LET poller == components[c].poller
     IN pollers' = [pollers EXCEPT ![poller].consumers = @ + 1,
                                   \* resume() if it is not active
                                   ![poller].isActive = TRUE]
  /\ components' = [components EXCEPT ![c].phase = "mounted"]
  /\ UNCHANGED <<taskPollers, quizVars, panelVars>>

\* src: the onUnmounted hook of component c
Unmounted(c) ==
  /\ components[c].phase = "mounted"
  /\ LET poller == components[c].poller
         last == pollers[poller].consumers - 1 = 0
     IN /\ pollers' = [pollers EXCEPT ![poller].consumers = @ - 1,
                                      \* pause()
                                      ![poller].isActive = IF last THEN FALSE ELSE @]
        /\ taskPollers' = IF last
                          THEN [taskPollers EXCEPT ![components[c].queueName] = NoPoller]
                          ELSE taskPollers
  /\ components' = [components EXCEPT ![c].phase = "unmounted"]
  /\ UNCHANGED <<quizVars, panelVars>>

\* the timeout of an active poller fires and TaskResource.list answers
Poll(poller, tasks) ==
  /\ poller \in DOMAIN pollers
  /\ pollers[poller].isActive
  /\ pollers[poller].tasks # tasks
  /\ pollers' = [pollers EXCEPT ![poller].tasks = tasks]
  /\ UNCHANGED <<taskPollers, components, quizVars, panelVars>>

(***************************************************************************)
(* Specifications.                                                         *)
(***************************************************************************)
\* the arrays of questions the operations are given
QuestionArrays == {s \in SeqsUpTo(AllQuestions, MaxInput) : NoDuplicates(s)}

\* the arrays of question items the operations are given
ItemArrays == {s \in SeqsUpTo(AllItems, MaxInput) : NoDuplicates(s)}

\* the resource pools the operations are given
ResourcePools ==
  {<<>>, <<Exercise("e1")>>, <<Exercise("e2")>>, <<Exercise("e1"), Exercise("e2")>>}

\* the exercises of an array of questions, as the panel collects them
ResourcesOf(questions) ==
  LET ids == uniq([i \in DOMAIN questions |-> questions[i].exercise_id])
  IN [i \in DOMAIN ids |-> Exercise(ids[i])]

\* the section indexes a caller can name: those of the model and one past them
SectionIndexes == 0..MaxSections

Init ==
  /\ _quiz = [id |-> NoId, title |-> "", collection |-> "", question_sources |-> <<>>]
  /\ quizHasChanged = FALSE
  /\ activeSectionIndex = 0
  /\ _selectedQuestionIds = <<>>
  /\ _exerciseMap = <<>>
  /\ _questionItemsToReplace = <<>>
  /\ lastError = NoError
  /\ saveRequests = <<>>
  /\ pendingInits = <<>>
  /\ unsavedChanges = FALSE
  /\ panel = ClosedPanel
  /\ taskPollers = [q \in QueueNames |-> NoPoller]
  /\ pollers = <<>>
  /\ components = [c \in Components |->
                     [phase |-> "created", queueName |-> "", poller |-> NoPoller]]

\* the arrays of items a user can select, and ask to replace: those of the
\* active section
SelectableItems == {s \in ItemArrays : Range(s) \subseteq Range(ItemsOf(activeQuestions(State)))}

\* the operations that put questions into, and take them out of, a new quiz,
\* called as the quiz page and the panel call them: on the active section, with
\* the exercises of the questions as resources
NextEdit ==
  \/ \E collection \in Collections : InitializeQuiz(collection, "new")
  \/ AddSection
  \/ \E sectionIndex \in 0..(MaxSections - 1) : RemoveSection(sectionIndex)
  \/ \E questions \in QuestionArrays, questionItemsToReplace \in SelectableItems :
        AddQuestionsToSection(activeSectionIndex, questions, ResourcesOf(questions),
                              questionItemsToReplace)
  \/ \E resourcePool \in ResourcePools \ {<<>>}, questionCount \in 1..MaxInput :
        AddQuestionsToSectionFromResources(activeSectionIndex, resourcePool, questionCount)
  \/ \E questionItems \in ItemArrays : AutoReplaceQuestions(questionItems)
  \/ DeleteActiveSelectedQuestions
  \/ \E ids \in SelectableItems : AddQuestionsToSelection(ids)
  \/ \E sectionIndex \in 0..(MaxSections - 1) : SetActiveSection(sectionIndex)

SpecUnique == Init /\ [][NextEdit]_vars

\* the arrays a direct caller of updateSection gives: up to one question more
\* than a section may hold, or an array holding what is no question
DirectQuestionArrays ==
  {s \in SeqsUpTo(AllQuestions, MAX_QUESTIONS_PER_QUIZ_SECTION + 1) : NoDuplicates(s)}
    \cup {<<Undefined>>}

\* updateSection called as saveSelectedResource calls it, with the questions
\* of a section and their exercises as the resource pool
NextDirect ==
  \E questions \in DirectQuestionArrays :
    UpdateSection(activeSectionIndex,
                  [questions |-> questions,
                   resourcePool |-> ResourcesOf(SelectSeq(questions, validQuizQuestion))])

\* a questions array of at most one question
ShortQuestionArrays == {s \in QuestionArrays : Len(s) <= 1}

ShortItemArrays == {s \in ItemArrays : Len(s) = 1}

\* the ids initializeQuiz is given
QuizIds == {"new"} \cup ServerIds

\* initializeQuiz and the continuations of its fetches
NextInitialize ==
  \/ \E collection \in Collections, quizId \in QuizIds : InitializeQuiz(collection, quizId)
  \/ \E i \in 1..MaxPendingInit : FetchModelResolves(i)
  \/ \E i \in 1..MaxPendingInit : FetchRejects(i)
  \/ \E i \in 1..MaxPendingInit, quizId \in ServerIds :
        \E fetched \in ExamsOnServer(quizId) : InitializeQuizFinish(i, fetched)

\* saveQuiz and the answers to its requests
NextSave ==
  \/ SaveQuiz
  \/ \E i \in 1..MaxInFlight, examId \in ServerIds : SaveResolves(i, examId)
  \/ \E i \in 1..MaxInFlight : SaveRejects(i)

\* the edits made while a quiz is loaded and saved
NextModify ==
  \/ \E title \in {"Quiz", InvalidTitle} : UpdateQuiz([title |-> title])
  \/ \E questions \in ShortQuestionArrays :
        UpdateSection(activeSectionIndex, [questions |-> questions])

\* the operations that fill and empty the sections of a quiz that was loaded
NextCache ==
  \/ \E questions \in ShortQuestionArrays :
        AddQuestionsToSection(activeSectionIndex, questions, ResourcesOf(questions), <<>>)
  \/ RemoveSection(0)
  \/ \E questionItems \in ShortItemArrays : AutoReplaceQuestions(questionItems)
  \/ DeleteActiveSelectedQuestions
  \/ \E ids \in SelectableItems : AddQuestionsToSelection(ids)

SpecSave == Init /\ [][NextInitialize \/ NextSave \/ NextModify]_vars

SpecCache == Init /\ [][NextInitialize \/ NextCache]_vars

\* the calls of addQuestionsToSection, to add and to replace, on the sections
\* of a new quiz
NextReplace ==
  \/ \E collection \in Collections : InitializeQuiz(collection, "new")
  \/ AddSection
  \/ \E sectionIndex \in SectionIndexes : SetActiveSection(sectionIndex)
  \/ \E questions \in QuestionArrays, questionItemsToReplace \in SelectableItems :
        AddQuestionsToSection(activeSectionIndex, questions, ResourcesOf(questions),
                              questionItemsToReplace)

SpecReplace == Init /\ [][NextReplace]_vars

\* the same calls, the items to replace being any items, of the target section
\* or not
NextReplaceAny ==
  \/ \E collection \in Collections : InitializeQuiz(collection, "new")
  \/ AddSection
  \/ \E sectionIndex \in SectionIndexes : SetActiveSection(sectionIndex)
  \/ \E questions \in QuestionArrays, questionItemsToReplace \in ItemArrays :
        AddQuestionsToSection(activeSectionIndex, questions, ResourcesOf(questions),
                              questionItemsToReplace)

SpecReplaceAny == Init /\ [][NextReplaceAny]_vars

\* the question counts the settings page can set
QuestionCounts == 1..(MAX_QUESTIONS_PER_QUIZ_SECTION + 1)

\* the quiz page and the panel it opens, on a new quiz
NextPanel ==
  \/ ~panel.open /\ \E collection \in Collections : InitializeQuiz(collection, "new")
  \/ ~panel.open /\ \E ids \in SelectableItems : AddQuestionsToSelection(ids)
  \/ ReplaceSelectedQuestions
  \/ \E selectPracticeQuiz \in BOOLEAN : OpenPanel(selectPracticeQuiz)
  \/ \E questionCount \in QuestionCounts, isChoosingManually \in {True, False} :
        UpdateSettings(questionCount, isChoosingManually)
  \/ \E e \in ExerciseIds :
        \E questions \in {s \in QuestionArrays :
                            s # <<>> /\ \A i \in DOMAIN s : s[i].exercise_id = e} :
          AddToWorkingQuestions(questions, Exercise(e))
  \/ \E question \in AllQuestions : RemoveFromWorkingQuestions(<<question>>)
  \/ \E e \in ExerciseIds : AddToWorkingResourcePool(<<Exercise(e)>>)
  \/ \E e \in ExerciseIds : RemoveFromWorkingResourcePool(<<Exercise(e)>>)
  \/ SaveSelectedResource
  \/ ClosePanel

SpecPanel == Init /\ [][NextPanel]_vars

\* the components that call useTaskPolling and the polls of the pollers
NextPolling ==
  \/ \E c \in Components, queueName \in QueueNames : Setup(c, queueName)
  \/ \E c \in Components : Mounted(c)
  \/ \E c \in Components : Unmounted(c)
  \/ \E poller \in 1..NumComponents, tasks \in TaskLists : Poll(poller, tasks)

SpecPolling == Init /\ [][NextPolling]_vars

\* the sections of a quiz, new or loaded, added, filled and removed
NextSections ==
  \/ NextInitialize
  \/ AddSection
  \/ \E sectionIndex \in SectionIndexes : RemoveSection(sectionIndex)
  \/ \E sectionIndex \in SectionIndexes : SetActiveSection(sectionIndex)
  \/ \E questions \in ShortQuestionArrays :
        AddQuestionsToSection(activeSectionIndex, questions, ResourcesOf(questions), <<>>)

SpecSections == Init /\ [][NextSections]_vars

\* an array longer than a section can hold
TooManyQuestions == [i \in 1..(MAX_QUESTIONS_PER_QUIZ_SECTION + 1) |-> Question("e1", "a")]

\* what updateSection can be given as questions: arrays of questions, an array
\* with an entry that is no question, an array too long, and values that are
\* not arrays
QuestionsInputs ==
  ShortQuestionArrays \cup {<<Undefined>>, TooManyQuestions, NotAnArray, FalsyNotAnArray}

UpdatesInputs ==
  {[questions |-> questions, resourcePool |-> resourcePool] :
     questions \in QuestionsInputs, resourcePool \in {<<>>, <<Exercise("e1")>>}}

\* every section holds an array of questions; with a section that does not,
\* every later read of the questions throws, and the model follows the
\* program no further
WellFormed ==
  \A i \in DOMAIN _quiz.question_sources :
    _quiz.question_sources[i].questions \notin {NotAnArray, FalsyNotAnArray}

\* updateSection and updateQuiz called with what they accept and what they
\* refuse
NextUpdate ==
  \/ WellFormed /\ \E collection \in Collections : InitializeQuiz(collection, "new")
  \/ WellFormed /\ AddSection
  \/ WellFormed /\ \E sectionIndex \in SectionIndexes, updates \in UpdatesInputs :
                      UpdateSection(sectionIndex, updates)
  \/ WellFormed /\ \E title \in {"Quiz", InvalidTitle} : UpdateQuiz([title |-> title])
  \/ WellFormed /\ SaveQuiz
  \/ \E i \in 1..MaxInFlight, examId \in ServerIds : SaveResolves(i, examId)

SpecUpdate == Init /\ [][NextUpdate]_vars

\* arrays of questions of the large exercise and of an exercise of one question
AutoQuestionArrays ==
  {s \in SeqsUpTo(LargeExerciseQuestions \cup {Question("e2", "a")}, MaxInput) :
     NoDuplicates(s)}

\* the questions of those arrays in one order
AutoQuestionOrder ==
  exerciseToQuestionArray(Exercise(LargeExerciseId)) \o <<Question("e2", "a")>>

\* the items to replace: the call looks each item up in the active section, so
\* the order of the items is left out
AutoItemArrays ==
  {ItemsOf(s) : s \in {s \in AutoQuestionArrays :
     \A i, j \in DOMAIN AutoQuestionOrder :
        Len(s) = 2 /\ s[1] = AutoQuestionOrder[i] /\ s[2] = AutoQuestionOrder[j] => i < j}}

\* autoReplaceQuestions on the sections of a new quiz that were filled with
\* questions and their exercises
NextAuto ==
  \/ \E collection \in Collections : InitializeQuiz(collection, "new")
  \/ AddSection
  \/ \E sectionIndex \in SectionIndexes : SetActiveSection(sectionIndex)
  \/ \E questions \in {s \in AutoQuestionArrays : Len(s) = 1} :
        AddQuestionsToSection(activeSectionIndex, questions, ResourcesOf(questions), <<>>)
  \/ /\ _selectedQuestionIds = <<>>
     /\ \E ids \in {s \in AutoItemArrays : Len(s) = 1} :
          /\ ids[1] \in Range(ItemsOf(activeQuestions(State)))
          /\ AddQuestionsToSelection(ids)
  \/ \E questionItems \in AutoItemArrays : AutoReplaceQuestions(questionItems)

SpecAuto == Init /\ [][NextAuto]_vars

\* the operations on the selection and those that change the questions it is
\* a selection of, on the sections of a new quiz that is initialized once
NextSelection ==
  \/ /\ _quiz.collection \notin Collections
     /\ \E collection \in Collections : InitializeQuiz(collection, "new")
  \/ AddSection
  \/ \E sectionIndex \in SectionIndexes : SetActiveSection(sectionIndex)
  \/ \E questions \in {s \in ShortQuestionArrays : Len(s) = 1} :
        AddQuestionsToSection(activeSectionIndex, questions, ResourcesOf(questions), <<>>)
  \/ \E ids \in SelectableItems : AddQuestionsToSelection(ids)
  \/ \E ids \in ShortItemArrays : RemoveQuestionsFromSelection(ids)
  \/ DeleteActiveSelectedQuestions
  \/ \E questionItems \in ShortItemArrays : AutoReplaceQuestions(questionItems)
  \/ \E questions \in {s \in ShortQuestionArrays : Len(s) = 1},
        questionItemsToReplace \in {s \in SelectableItems : Len(s) = 1} :
        AddQuestionsToSection(activeSectionIndex, questions, ResourcesOf(questions),
                              questionItemsToReplace)
  \/ \E sectionIndex \in SectionIndexes : RemoveSection(sectionIndex)

SpecSelection == Init /\ [][NextSelection]_vars

\* the panel opened to select a practice quiz, on a section of a new quiz
\* whose sections were filled; the save may add one section more than
\* addSection does
NextPractice ==
  \/ /\ ~panel.open /\ _quiz.collection \notin Collections
     /\ \E collection \in Collections : InitializeQuiz(collection, "new")
  \/ ~panel.open /\ AddSection
  \/ /\ ~panel.open
     /\ \E sectionIndex \in SectionIndexes :
          HasSection(State, sectionIndex) /\ SetActiveSection(sectionIndex)
  \/ /\ ~panel.open
     /\ \E questions \in {s \in ShortQuestionArrays : Len(s) = 1} :
          AddQuestionsToSection(activeSectionIndex, questions, ResourcesOf(questions), <<>>)
  \/ HasSection(State, activeSectionIndex) /\ OpenPanel(TRUE)
  \/ \E e \in {"e1", LargeExerciseId} : AddToWorkingResourcePool(<<Exercise(e)>>)
  \/ \E e \in {"e1", LargeExerciseId} : RemoveFromWorkingResourcePool(<<Exercise(e)>>)
  \/ SaveSelectedResourceWithin(MaxSections + 1)
  \/ ClosePanel

SpecPractice == Init /\ [][NextPractice]_vars

Next == NextEdit \/ NextDirect

Spec == Init /\ [][Next]_vars

(***************************************************************************)
(* The claims.                                                             *)
(***************************************************************************)
Sections == _quiz.question_sources

\* C1: once initializeQuiz has set up a new quiz, whatever sequence of
\* addQuestionsToSection, addQuestionsToSectionFromResources,
\* autoReplaceQuestions, deleteActiveSelectedQuestions, addSection and
\* removeSection follows, no two questions of the quiz, in one section or in
\* two, have the same item.
C1_ItemsUniqueInQuiz ==
  _quiz.collection \in Collections => NoDuplicates(ItemsOf(allQuestionsInQuiz(State)))

\* C2: in every reachable state each section holds at most
\* MAX_QUESTIONS_PER_QUIZ_SECTION questions, and a call that was refused for
\* its too long array of questions threw a TypeError.
C2_SectionsBounded ==
  /\ \A i \in DOMAIN Sections :
       Len(Sections[i].questions) <= MAX_QUESTIONS_PER_QUIZ_SECTION
  /\ lastError = "TooManyQuestions" => ErrorType(lastError) = "TypeError"

\* a call of updateSection was refused for its too long array of questions
C2_Witness ==
  /\ lastError = "TooManyQuestions"
  /\ \E i \in DOMAIN Sections :
       Len(Sections[i].questions) = MAX_QUESTIONS_PER_QUIZ_SECTION

\* the replace calls of addQuestionsToSection on the active section
ReplaceCall(questions, questionItemsToReplace) ==
  /\ Len(questionItemsToReplace) > 0
  /\ AddQuestionsToSection(activeSectionIndex, questions, ResourcesOf(questions),
                           questionItemsToReplace)

Refused == ErrorType(lastError') = "TypeError" /\ Sections' = Sections

\* C3, as claimed: addQuestionsToSection with a non-empty
\* questionItemsToReplace throws a TypeError and leaves the sections as they
\* were whenever the number of questions it is given differs from the number
\* of items to replace.
C3_AsClaimed ==
  [][\A questions \in QuestionArrays, questionItemsToReplace \in SelectableItems :
       ReplaceCall(questions, questionItemsToReplace)
         /\ Len(questions) # Len(questionItemsToReplace)
       => Refused]_vars

\* the questions given that the target section does not hold yet
NewQuestions(questions) ==
  SelectSeq(questions, LAMBDA q : q.item \notin Range(ItemsOf(activeQuestions(State))))

\* C3, amended: addQuestionsToSection with a non-empty questionItemsToReplace
\* throws a TypeError and leaves the sections as they were whenever the
\* number of the given questions that the target section does not hold yet
\* differs from the number of items to replace.
C3_ReplaceNeedsEqualCardinality ==
  [][\A questions \in QuestionArrays, questionItemsToReplace \in SelectableItems :
       ReplaceCall(questions, questionItemsToReplace)
         /\ Len(NewQuestions(questions)) # Len(questionItemsToReplace)
       => Refused]_vars

\* a replace call was refused for its cardinality
C3_Witness ==
  lastError = "ReplaceCountMismatch" /\ Len(activeQuestions(State)) > 0

C5_CacheNeverEvicted ==
  [][\A id \in DOMAIN _exerciseMap : id \in DOMAIN _exerciseMap']_vars

\* the cache holds the exercise a fetched quiz came with and one a section was
\* given, and no question of the quiz is of either
C5_Witness ==
  /\ DOMAIN _exerciseMap = ExerciseIds
  /\ allQuestionsInQuiz(State) = <<>>

RequestsIssued == Len(saveRequests') - Len(saveRequests)

\* C6: a saveQuiz call issues one save request when the quiz is valid and none
\* when it is not, no other step issues one, and the rejection of a request
\* leaves one request fewer in flight: it is not sent again.
C6_OneRequestForEachSave ==
  [][/\ SaveQuiz => RequestsIssued = (IF validateQuiz(_quiz) THEN 1 ELSE 0)
     /\ RequestsIssued > 0 => SaveQuiz
     /\ \A i \in 1..MaxInFlight : SaveRejects(i) => RequestsIssued = -1]_vars

\* the request of a valid quiz was rejected and none is in flight
C6_Witness ==
  lastError = "SaveRejected" /\ saveRequests = <<>> /\ validateQuiz(_quiz)

InitializeQuizEnds ==
  \/ \E collection \in Collections : InitializeQuiz(collection, "new")
  \/ \E i \in 1..MaxPendingInit, quizId \in ServerIds :
        \E fetched \in ExamsOnServer(quizId) : InitializeQuizFinish(i, fetched)

FailedSaveChangesNothing ==
  _quiz' = _quiz /\ quizHasChanged' = quizHasChanged /\ lastError' \in Rejections

\* C7: a saveQuiz that fails, for a quiz that is not valid or a request that
\* rejects, rejects its promise and leaves the quiz and quizHasChanged as they
\* were; quizHasChanged goes from true to false only when a save request
\* resolves or an initializeQuiz ends.
C7_FailedSaveChangesNothing ==
  [][/\ SaveQuiz /\ ~validateQuiz(_quiz) => FailedSaveChangesNothing
     /\ \A i \in 1..MaxInFlight : SaveRejects(i) => FailedSaveChangesNothing
     /\ quizHasChanged /\ ~quizHasChanged' =>
          \/ \E i \in 1..MaxInFlight, examId \in ServerIds : SaveResolves(i, examId)
          \/ InitializeQuizEnds]_vars

\* the save request of a quiz that has changed was rejected
C7_Witness ==
  lastError = "SaveRejected" /\ quizHasChanged /\ _quiz.title = "Quiz"

\* C8, as claimed: initializeQuiz applies all of its changes within the call:
\* once an initializeQuiz has started and until its last state change, the
\* steps taken are its own.
C8_AsClaimed ==
  [][pendingInits # <<>> => pendingInits' # pendingInits]_vars

\* C8, amended: the save request and the two fetches of initializeQuiz for an
\* existing quiz are the only asynchronous operations: a step that leaves a
\* continuation pending is a saveQuiz call or an initializeQuiz call for an
\* existing quiz, and every other call, initializeQuiz for a new quiz
\* included, applies all of its changes within its one step.
C8_OnlySaveAndFetchesPend ==
  [][Len(pendingInits') > Len(pendingInits) \/ Len(saveRequests') > Len(saveRequests)
       => \/ SaveQuiz
          \/ \E collection \in Collections, quizId \in ServerIds :
                InitializeQuiz(collection, quizId)]_vars

\* an initializeQuiz for an existing quiz awaits its second fetch while the
\* quiz, initialized as new within one call, has been changed by another call
C8_Witness ==
  /\ pendingInits # <<>> /\ pendingInits[1].awaiting = "fetchExamWithContent"
  /\ _quiz.collection \in Collections /\ _quiz.id = NoId /\ quizHasChanged

ActivePollers(queueName) ==
  {p \in DOMAIN pollers : pollers[p].queueName = queueName /\ pollers[p].isActive}

\* C9: for each queue name at most one poller is active, and every mounted
\* component reads its tasks from the poller the registry holds for its queue.
C9_OnePollerForEachQueue ==
  /\ \A queueName \in QueueNames : Cardinality(ActivePollers(queueName)) <= 1
  /\ \A c \in Components :
       components[c].phase = "mounted"
         => components[c].poller = taskPollers[components[c].queueName]

\* C10: whenever quizHasChanged is false, the quiz holds no modification made
\* after the data of the last request that resolved was captured, or after the
\* last initializeQuiz.
C10_UnchangedMeansSaved ==
  ~quizHasChanged => ~unsavedChanges

\* an initializeQuiz has completed
Initialized == _quiz.collection \in Collections

\* C11: once an initializeQuiz has completed, for a new quiz or an existing
\* one, the quiz has at least one section after every step, and a
\* removeSection of the only section leaves exactly one default section.
C11_AlwaysOneSection ==
  [][/\ Initialized' => Len(Sections') >= 1
     /\ \A sectionIndex \in SectionIndexes :
          RemoveSection(sectionIndex) /\ Len(Sections) = 1
            /\ HasSection(State, sectionIndex)
          => Sections' = <<DefaultSection>>]_vars

\* the only section, which held a question, was removed and a default
\* section is there in its place
C11_Witness ==
  /\ Initialized /\ Sections = <<DefaultSection>>
  /\ DOMAIN _exerciseMap # {} /\ lastError = NoError /\ quizHasChanged

\* the sections without the one at sectionIndex
SectionsWithout(sectionIndex) ==
  [j \in 1..(Len(Sections) - 1) |->
     IF j <= sectionIndex THEN Sections[j] ELSE Sections[j + 1]]

Refusable(sectionIndex, updates) ==
  \/ ~HasSection(State, sectionIndex)
  \/ updates.questions \in {NotAnArray, FalsyNotAnArray}
  \/ Len(updates.questions) > MAX_QUESTIONS_PER_QUIZ_SECTION
  \/ \E i \in DOMAIN updates.questions : ~validQuizQuestion(updates.questions[i])

RefusedUnchanged ==
  /\ ErrorType(lastError') = "TypeError"
  /\ Sections' = Sections
  /\ _exerciseMap' = _exerciseMap

\* C12: updateSection throws a TypeError, and leaves the sections and the
\* exercise cache as they were, when there is no section at the index, when
\* questions is not an array, when it is longer than
\* MAX_QUESTIONS_PER_QUIZ_SECTION, or when an entry is not a valid question.
C12_UpdateSectionRefuses ==
  [][\A sectionIndex \in SectionIndexes, updates \in UpdatesInputs :
       UpdateSection(sectionIndex, updates) /\ Refusable(sectionIndex, updates)
       => RefusedUnchanged]_vars

\* C12 for every value of questions but the falsy ones
C12_TruthyRefused ==
  [][\A sectionIndex \in SectionIndexes, updates \in UpdatesInputs :
       UpdateSection(sectionIndex, updates) /\ Refusable(sectionIndex, updates)
         /\ updates.questions # FalsyNotAnArray
       => RefusedUnchanged]_vars

\* C13: a step that raises quizHasChanged has modified the quiz: an
\* updateSection or updateQuiz call that throws leaves quizHasChanged as it
\* was.
C13_ChangedOnlyByModification ==
  [][~quizHasChanged /\ quizHasChanged' => _quiz' # _quiz /\ lastError' = NoError]_vars

\* the questions of the active section after the step
ActiveQuestionsAfter ==
  IF activeSectionIndex + 1 \in DOMAIN Sections'
  THEN Sections'[activeSectionIndex + 1].questions ELSE <<>>

\* the places of the active section whose question is one to replace
Replaced(questionItems) ==
  {k \in DOMAIN activeQuestions(State) :
     activeQuestions(State)[k].item \in Range(questionItems)}

ReplacedBy(old, new, questions, questionItemsToReplace) ==
  /\ Len(new) = Len(old)
  /\ \A q \in Range(questions) : Cardinality({k \in DOMAIN new : new[k] = q}) = 1
  /\ \A k \in DOMAIN new : new[k].item \notin Range(questionItemsToReplace)
  /\ \A k \in DOMAIN old :
       old[k].item \notin Range(questionItemsToReplace) => new[k] = old[k]

\* C16: after addQuestionsToSection succeeds with a non-empty
\* questionItemsToReplace, the target section has as many questions as before,
\* holds every question it was given exactly once and none of the items that
\* were to be replaced, and its other questions are where they were.
C16_ReplaceResult ==
  [][\A questions \in QuestionArrays, questionItemsToReplace \in ItemArrays :
       lastError' = NoError /\ ReplaceCall(questions, questionItemsToReplace)
       => ReplacedBy(activeQuestions(State), ActiveQuestionsAfter,
                     questions, questionItemsToReplace)]_vars

\* C16 for the calls whose items to replace are items of the target section
\* and whose questions are not the ones to be replaced
C16_ItemsOfSectionReplaced ==
  [][\A questions \in QuestionArrays, questionItemsToReplace \in ItemArrays :
       /\ lastError' = NoError
       /\ Range(questionItemsToReplace) \subseteq Range(ItemsOf(activeQuestions(State)))
       /\ Range(ItemsOf(questions)) \cap Range(questionItemsToReplace) = {}
       /\ ReplaceCall(questions, questionItemsToReplace)
       => ReplacedBy(activeQuestions(State), ActiveQuestionsAfter,
                     questions, questionItemsToReplace)]_vars

\* C16 for the calls whose questions the target section does not hold
C16_NewQuestionsPlaced ==
  [][\A questions \in QuestionArrays, questionItemsToReplace \in ItemArrays :
       /\ lastError' = NoError
       /\ NewQuestions(questions) = questions
       /\ ReplaceCall(questions, questionItemsToReplace)
       => ReplacedBy(activeQuestions(State), ActiveQuestionsAfter,
                     questions, questionItemsToReplace)]_vars

C18_SelectionInActiveSection ==
  Range(_selectedQuestionIds) \subseteq Range(ItemsOf(activeQuestions(State)))

\* the chunks a practice quiz of these questions is saved in
RECURSIVE Chunks(_)
Chunks(questions) ==
  IF Len(questions) <= MAX_QUESTIONS_PER_QUIZ_SECTION
  THEN IF questions = <<>> THEN <<>> ELSE <<questions>>
  ELSE <<SubSeq(questions, 1, MAX_QUESTIONS_PER_QUIZ_SECTION)>>
         \o Chunks(SubSeq(questions, MAX_QUESTIONS_PER_QUIZ_SECTION + 1, Len(questions)))

\* a click on save in the panel that selects a practice quiz
SavePracticeQuiz ==
  panel.settings.selectPracticeQuiz /\ SaveSelectedResourceWithin(MaxSections + 1)

\* C20: the save of a practice quiz selection puts the questions of the one
\* exercise selected into the quiz, in their order, in chunks of at most
\* MAX_QUESTIONS_PER_QUIZ_SECTION: the first in the active section, each
\* further one in a section that this save added, and every section that was
\* there, but the active one, is as it was; with a pool of another size than
\* one it throws an Error and changes nothing.
C20_PracticeQuizChunks ==
  [][SavePracticeQuiz =>
       IF Len(panel.workingResourcePool) # 1
       THEN /\ ErrorType(lastError') = "Error"
            /\ UNCHANGED <<_quiz, quizHasChanged, _selectedQuestionIds, _exerciseMap>>
       ELSE LET chunks == Chunks(exerciseToQuestionArray(panel.workingResourcePool[1]))
            IN /\ lastError' = NoError
               /\ Len(Sections') = Len(Sections) + Len(chunks) - 1
               /\ Sections'[activeSectionIndex + 1].questions = chunks[1]
               /\ \A k \in 2..Len(chunks) :
                    Sections'[Len(Sections) + k - 1].questions = chunks[k]
               /\ \A j \in DOMAIN Sections :
                    j # activeSectionIndex + 1 => Sections'[j] = Sections[j]]_vars

\* C20 for the saves made while the active section is the last one
C20_ActiveSectionLast ==
  [][SavePracticeQuiz /\ activeSectionIndex + 1 = Len(Sections) =>
       IF Len(panel.workingResourcePool) # 1
       THEN /\ ErrorType(lastError') = "Error"
            /\ UNCHANGED <<_quiz, quizHasChanged, _selectedQuestionIds, _exerciseMap>>
       ELSE LET chunks == Chunks(exerciseToQuestionArray(panel.workingResourcePool[1]))
            IN /\ lastError' = NoError
               /\ Len(Sections') = Len(Sections) + Len(chunks) - 1
               /\ Sections'[activeSectionIndex + 1].questions = chunks[1]
               /\ \A k \in 2..Len(chunks) :
                    Sections'[Len(Sections) + k - 1].questions = chunks[k]
               /\ \A j \in DOMAIN Sections :
                    j # activeSectionIndex + 1 => Sections'[j] = Sections[j]]_vars

\* the items of an exercise that no question of the quiz has
UnusedItems(e) ==
  {ItemOf(e, aid) : aid \in Range(AssessmentItemIds(e))}
    \ Range(ItemsOf(allQuestionsInQuiz(State)))

\* some exercise has more questions to replace than unused questions
NotEnoughUnused(questionItems) ==
  \E e \in ExerciseIds \cup {LargeExerciseId} :
    Cardinality({k \in Replaced(questionItems) :
                   activeQuestions(State)[k].exercise_id = e})
      > Cardinality(UnusedItems(e))

\* C15: autoReplaceQuestions throws an Error whenever some exercise has more
\* questions to replace than questions not yet used in the quiz, and then the
\* sections, the selection and quizHasChanged are as they were.
C15_AutoReplaceThrows ==
  [][\A questionItems \in AutoItemArrays :
       NotEnoughUnused(questionItems) /\ AutoReplaceQuestions(questionItems)
       => /\ ErrorType(lastError') = "Error"
          /\ UNCHANGED <<_quiz, _selectedQuestionIds, quizHasChanged>>]_vars

\* C15, for every throw of autoReplaceQuestions: the sections, the selection
\* and quizHasChanged are as they were
C15_ThrowChangesNothing ==
  [][\A questionItems \in AutoItemArrays :
       lastError' # NoError /\ AutoReplaceQuestions(questionItems)
       => UNCHANGED <<_quiz, _selectedQuestionIds, quizHasChanged>>]_vars

\* two questions of the large exercise were to be replaced and one was left
C15_Witness ==
  /\ lastError = "NotEnoughUnusedQuestions"
  /\ _selectedQuestionIds # <<>>

====
